---- MODULE Spec2Model ----
(***************************************************************************)
(* weather-icon (src/index.js): one Express route, GET /, that turns the   *)
(* requester's address into a location (ip-api.com), the location into the *)
(* current weather (darksky.net) and the weather's icon code into an SVG.  *)
(*                                                                         *)
(* The route handler closes over req, res and next only; the module has no *)
(* mutable state of its own (every top-level binding is a const).  The     *)
(* model therefore follows one request through its promise chain; a        *)
(* finished request is replaced by the next accepted one.                  *)
(***************************************************************************)
EXTENDS Integers, Sequences, FiniteSets, TLC

\* ------------------------------------------------------------------------
\* Bounds
\* ------------------------------------------------------------------------

\* Longest address list proxyaddr.all(req, 'uniquelocal') returns.
MaxHops == 2

\* ------------------------------------------------------------------------
\* JavaScript values that reach the code from JSON bodies and the request
\* ------------------------------------------------------------------------

Undefined == [t |-> "undefined", n |-> 0, s |-> ""]
Null == [t |-> "null", n |-> 0, s |-> ""]
Num(n) == [t |-> "number", n |-> n, s |-> ""]
Str(s) == [t |-> "string", n |-> 0, s |-> s]

\* ToBoolean, as `!v` applies it.  JSON.parse yields no NaN.
Truthy(v) ==
    CASE v.t = "number" -> v.n # 0
      [] v.t = "string" -> v.s # ""
      [] OTHER -> FALSE

\* ToString, as `'...' + v` applies it.
ToStr(v) ==
    CASE v.t = "number" -> ToString(v.n)
      [] v.t = "string" -> v.s
      [] v.t = "null" -> "null"
      [] OTHER -> "undefined"

\* a[i] on a JavaScript array (0-based; undefined outside 0..length-1).
ArrayGet(a, i) == IF i \in 0..(Len(a) - 1) THEN a[i + 1] ELSE Undefined

\* ------------------------------------------------------------------------
\* Constants of src/index.js
\* ------------------------------------------------------------------------

IP_LOOKUP_BASE_URL == "http://ip-api.com/json/"
WEATHER_LOOKUP_BASE_URL == "https://api.darksky.net/forecast/"
FALLBACK_IP == "156.74.181.208"
CONTENT_TYPE_SVG == "image/svg+xml"

\* The SVG fragments; each string stands for the whole template literal.
SVG_HEADER == "<?xml version=\"1.0\" encoding=\"UTF-8\" ?><svg viewbox=\"0 0 200 230\">"
SVG_SUN == "<g fill=\"#FFE000\" stroke=\"#FEE000\">sun</g>"
SVG_MOON == "<g fill=\"#E0E0E0\">moon</g>"
SVG_CLOUD == "<g fill=\"#ACACAC\">cloud</g>"
SVG_PARTLY_CLOUDY_TRANSFORM == "transform=\"translate(20 50)\""
SVG_RAIN == "<g stroke=\"#1F90CC\">rain</g>"
SVG_SNOW == "<g fill=\"#FFFFFF\" transform=\"translate(100 130)\">snow</g>"
SVG_WIND == "<g fill=\"none\" stroke=\"#FFFFFF\">wind</g>"
SVG_CREDIT == "<text>Powered By Dark Sky</text>"
SVG_GROUP_OPEN == "<g " \o SVG_PARTLY_CLOUDY_TRANSFORM \o ">"
SVG_GROUP_CLOSE == "</g>"
SVG_END == "</svg>"

\* ------------------------------------------------------------------------
\* Inputs
\* ------------------------------------------------------------------------

\* Entries of the address list: two distinct addresses, or an absent one
\* (req.connection.remoteAddress is undefined on the Webtask runtime).
AddrVals == {Undefined, Str("203.0.113.9"), Str("198.51.100.4")}

RECURSIVE SeqsUpTo(_, _)
SeqsUpTo(S, n) ==
    IF n = 0 THEN {<<>>}
    ELSE LET shorter == SeqsUpTo(S, n - 1)
         IN shorter \cup {Append(q, x) : q \in {p \in shorter : Len(p) = n - 1}, x \in S}

AddrLists == SeqsUpTo(AddrVals, MaxHops)

\* req.webtaskContext.secrets.DARKSKY_API_KEY
DARKSKY_API_KEY == "secret-key"

\* HTTP statuses an upstream answers with.
StatusCodes == {200, 403}

\* lat / lon fields of a geolocation body.
CoordVals == {Undefined, Null, Num(0), Num(-2), Num(3), Str("abc")}

\* What JSON.parse returns for a geolocation body: null, or an object.
GeoDocs ==
    {[t |-> "null", lat |-> Undefined, lon |-> Undefined]}
    \cup {[t |-> "object", lat |-> a, lon |-> b] : a \in CoordVals, b \in CoordVals}

\* The condition codes getIcon names, and some it does not.
KnownIcons ==
    {"clear-day", "clear-night", "partly-cloudy-day", "partly-cloudy-night",
     "rain", "snow", "hail", "sleet", "wind"}
OtherIcons == {"cloudy", "fog", "tornado"}
IconVals == {Str(c) : c \in KnownIcons \cup OtherIcons} \cup {Undefined}

\* What JSON.parse returns for a weather body: null, an object without a
\* usable `currently`, or an object whose `currently` is an object.
WeatherDocs ==
    {[t |-> "null", currently |-> "undefined", icon |-> Undefined]}
    \cup {[t |-> "object", currently |-> c, icon |-> Undefined] : c \in {"undefined", "null"}}
    \cup {[t |-> "object", currently |-> "object", icon |-> i] : i \in IconVals}

\* What the request library hands its callback: an error, or a response
\* with a status and a body that is JSON text (of doc) or is not.
Responses(Docs, blank) ==
    {[err |-> TRUE, status |-> 0, json |-> FALSE, doc |-> blank]}
    \cup {[err |-> FALSE, status |-> s, json |-> FALSE, doc |-> blank] : s \in StatusCodes}
    \cup {[err |-> FALSE, status |-> s, json |-> TRUE, doc |-> d] : s \in StatusCodes, d \in Docs}

NoGeoDoc == [t |-> "null", lat |-> Undefined, lon |-> Undefined]
NoWeatherDoc == [t |-> "null", currently |-> "undefined", icon |-> Undefined]
GeoResponses == Responses(GeoDocs, NoGeoDoc)
WeatherResponses == Responses(WeatherDocs, NoWeatherDoc)
NoGeoResponse == [err |-> TRUE, status |-> 0, json |-> FALSE, doc |-> NoGeoDoc]
NoWeatherResponse == [err |-> TRUE, status |-> 0, json |-> FALSE, doc |-> NoWeatherDoc]

\* An upstream either answers the call at some time or never does.
Upstreams == {"answers", "silent"}

\* ------------------------------------------------------------------------
\* The functions of src/index.js
\* ------------------------------------------------------------------------

Resolved(v) == [ok |-> TRUE, error |-> "", val |-> v]
Rejected(e, v) == [ok |-> FALSE, error |-> e, val |-> v]

\* JSON.parse(body)
JSONparse(resp) ==
    IF resp.json THEN Resolved(resp.doc) ELSE Rejected("SyntaxError", resp.doc)

\* Request.getAsync(url).get(1).then(JSON.parse): the promise rejects with
\* the library's error, otherwise the body (element 1 of [response, body])
\* is parsed.  The response's status is not looked at, and the call is
\* given no timeout option.
requestJSON(resp) ==
    IF resp.err THEN Rejected("RequestError", resp.doc) ELSE JSONparse(resp)

\* Faulty variant: the first entry of the list instead of the last.
ClientIp_first(addrs) ==
    LET ip == ArrayGet(addrs, 0)
    IN IF ~Truthy(ip) THEN FALLBACK_IP ELSE ToStr(ip)

\* let ip = proxyaddr.all(...); ip = ip[ip.length - 1]; if(!ip) ip = fallback
ClientIp(addrs) ==
    LET ip == ArrayGet(addrs, Len(addrs) - 1)
    IN IF ~Truthy(ip) THEN FALLBACK_IP ELSE ToStr(ip)

\* The URL getLocation requests.
LocationUrl(addrs) == IP_LOOKUP_BASE_URL \o ClientIp(addrs)

\* Faulty variant: only long is tested.
LocationMissing_longOnly(lat, long) == ~Truthy(long)

\* if(!lat || !long) throw
LocationMissing(lat, long) == ~Truthy(lat) \/ ~Truthy(long)

\* The .then callback of getLocation, applied to the parsed body.
LocationThen(ipData) ==
    IF ipData.t = "null" THEN Rejected("TypeError", <<Undefined, Undefined>>)
    ELSE LET lat == ipData.lat
             long == ipData.lon
         IN IF LocationMissing(lat, long)
            THEN Rejected("Unable to find your location", <<lat, long>>)
            ELSE Resolved(<<lat, long>>)

\* getLocation's promise, given the geolocation upstream's answer.
getLocation(resp) ==
    LET parsed == requestJSON(resp)
    IN IF parsed.ok THEN LocationThen(parsed.val)
       ELSE Rejected(parsed.error, <<Undefined, Undefined>>)

\* The URL getWeather requests.
WeatherUrl(key, lat, long) ==
    WEATHER_LOOKUP_BASE_URL \o key \o "/" \o ToStr(lat) \o "," \o ToStr(long)

\* Faulty variant: sleet draws the rain only.
DrawBottomLayer_sleetRainOnly(icon) ==
    CASE icon \in {Str("clear-day"), Str("partly-cloudy-day")} -> <<SVG_SUN>>
      [] icon \in {Str("clear-night"), Str("partly-cloudy-night")} -> <<SVG_MOON>>
      [] icon = Str("rain") -> <<SVG_RAIN>>
      [] icon \in {Str("snow"), Str("hail")} -> <<SVG_SNOW>>
      [] icon = Str("sleet") -> <<SVG_RAIN>>
      [] icon = Str("wind") -> <<SVG_WIND>>
      [] OTHER -> <<>>

\* switch(icon) of "Draw the bottom layer"
DrawBottomLayer(icon) ==
    CASE icon \in {Str("clear-day"), Str("partly-cloudy-day")} -> <<SVG_SUN>>
      [] icon \in {Str("clear-night"), Str("partly-cloudy-night")} -> <<SVG_MOON>>
      [] icon = Str("rain") -> <<SVG_RAIN>>
      [] icon \in {Str("snow"), Str("hail")} -> <<SVG_SNOW>>
      [] icon = Str("sleet") -> <<SVG_RAIN, SVG_SNOW>>
      [] icon = Str("wind") -> <<SVG_WIND>>
      [] OTHER -> <<>>

\* switch(icon) of "Draw the cloud on top"; the partly-cloudy cases fall
\* through to default.
DrawCloud(icon) ==
    CASE icon \in {Str("clear-day"), Str("clear-night"), Str("wind")} -> <<>>
      [] icon \in {Str("partly-cloudy-day"), Str("partly-cloudy-night")} ->
            <<SVG_GROUP_OPEN>> \o <<SVG_CLOUD>>
      [] OTHER -> <<SVG_CLOUD>>

\* Faulty variant: the group is closed for partly-cloudy-day only.
CloseGroup_dayOnly(icon) ==
    IF icon = Str("partly-cloudy-day") THEN <<SVG_GROUP_CLOSE>> ELSE <<>>

\* "Close partly cloudy transformation group"
CloseGroup(icon) ==
    IF icon = Str("partly-cloudy-day") \/ icon = Str("partly-cloudy-night")
    THEN <<SVG_GROUP_CLOSE>> ELSE <<>>

\* getIcon(weather).  The svg string is the sequence of the fragments
\* appended to it.  weather.currently.icon throws a TypeError when weather
\* or weather.currently is null or undefined.
getIcon(weather) ==
    IF weather.t = "null" \/ weather.currently # "object"
    THEN [threw |-> TRUE, svg |-> <<>>]
    ELSE LET icon == weather.icon
             svg0 == <<SVG_HEADER>>
             svg1 == svg0 \o DrawBottomLayer(icon)
             svg2 == svg1 \o DrawCloud(icon)
             svg3 == svg2 \o CloseGroup(icon)
             svg4 == svg3 \o <<SVG_CREDIT>>
         IN [threw |-> FALSE, svg |-> svg4 \o <<SVG_END>>]

\* Faulty variant: what getIcon had built when it threw is sent.
SendIcon_partial(weatherData) ==
    LET icon == getIcon(weatherData)
    IN [header |-> CONTENT_TYPE_SVG,
        sent |-> TRUE,
        body |-> IF icon.threw THEN <<SVG_HEADER>> ELSE icon.svg,
        error |-> IF icon.threw THEN "TypeError" ELSE ""]

\* Faulty variant: the icon is sent without the Content-Type header.
SendIcon_noHeader(weatherData) ==
    LET icon == getIcon(weatherData)
    IN [header |-> "",
        sent |-> ~icon.threw,
        body |-> icon.svg,
        error |-> IF icon.threw THEN "TypeError" ELSE ""]

\* The .then callback of the route: setHeader, then send(getIcon(...)).
\* The header is set before getIcon is evaluated.
SendIcon(weatherData) ==
    LET icon == getIcon(weatherData)
    IN [header |-> CONTENT_TYPE_SVG,
        sent |-> ~icon.threw,
        body |-> icon.svg,
        error |-> IF icon.threw THEN "TypeError" ELSE ""]

\* ------------------------------------------------------------------------
\* State
\* ------------------------------------------------------------------------

VARIABLES
    pc,           \* where the request's promise chain stands
    addrs,        \* proxyaddr.all(req, 'uniquelocal')
    calls,        \* the stage functions called for the request, in order
    geoUrl,       \* URL of the geolocation call ("" before it is made)
    geoNet,       \* the geolocation call: "none", "answers", "silent", "answered"
    geoResp,      \* what the geolocation call came back with
    weatherUrl,   \* URL of the weather call ("" before it is made)
    weatherNet,   \* the weather call, as geoNet
    weatherResp,  \* what the weather call came back with
    header,       \* Content-Type set on res ("" when not set)
    sent,         \* res.send was called
    body,         \* what res.send was called with
    nextErr       \* the error next was called with ("" when it was not)

vars == <<pc, addrs, calls, geoUrl, geoNet, geoResp, weatherUrl, weatherNet,
          weatherResp, header, sent, body, nextErr>>

Init ==
    /\ pc = "idle"
    /\ addrs = <<>>
    /\ calls = <<>>
    /\ geoUrl = ""
    /\ geoNet = "none"
    /\ geoResp = NoGeoResponse
    /\ weatherUrl = ""
    /\ weatherNet = "none"
    /\ weatherResp = NoWeatherResponse
    /\ header = ""
    /\ sent = FALSE
    /\ body = <<>>
    /\ nextErr = ""

\* app.get('/') is entered for a request: getLocation(req) runs up to its
\* return, which issues the geolocation call.
Accept(a, up) ==
    /\ pc \in {"idle", "sent", "failed"}
    /\ pc' = "geo"
    /\ addrs' = a
    /\ calls' = <<"getLocation">>
    /\ geoUrl' = LocationUrl(a)
    /\ geoNet' = up
    /\ geoResp' = NoGeoResponse
    /\ weatherUrl' = ""
    /\ weatherNet' = "none"
    /\ weatherResp' = NoWeatherResponse
    /\ header' = ""
    /\ sent' = FALSE
    /\ body' = <<>>
    /\ nextErr' = ""

\* The geolocation call comes back: getLocation's promise settles, and
\* either .spread calls getWeather (which issues the weather call) or
\* .catch hands the error to next.
GeoResponse(resp, up) ==
    /\ pc = "geo"
    /\ geoNet = "answers"
    /\ geoNet' = "answered"
    /\ geoResp' = resp
    /\ LET loc == getLocation(resp)
       IN IF loc.ok
          THEN /\ pc' = "weather"
               /\ calls' = Append(calls, "getWeather")
               /\ weatherUrl' = WeatherUrl(DARKSKY_API_KEY, loc.val[1], loc.val[2])
               /\ weatherNet' = up
               /\ nextErr' = nextErr
          ELSE /\ pc' = "failed"
               /\ nextErr' = loc.error
               /\ UNCHANGED <<calls, weatherUrl, weatherNet>>
    /\ UNCHANGED <<addrs, geoUrl, weatherResp, header, sent, body>>

\* The weather call comes back: getWeather's promise settles, and either
\* the .then callback sets the header and sends the icon, or .catch hands
\* the error (of the call, of JSON.parse or of getIcon) to next.
WeatherResponse(resp) ==
    /\ pc = "weather"
    /\ weatherNet = "answers"
    /\ weatherNet' = "answered"
    /\ weatherResp' = resp
    /\ LET weather == requestJSON(resp)
       IN IF weather.ok
          THEN LET out == SendIcon(weather.val)
               IN /\ calls' = Append(calls, "getIcon")
                  /\ header' = out.header
                  /\ sent' = out.sent
                  /\ body' = out.body
                  /\ nextErr' = out.error
                  /\ pc' = IF out.sent THEN "sent" ELSE "failed"
          ELSE /\ pc' = "failed"
               /\ nextErr' = weather.error
               /\ UNCHANGED <<calls, header, sent, body>>
    /\ UNCHANGED <<addrs, geoUrl, geoNet, geoResp, weatherUrl>>

Next ==
    \/ \E a \in AddrLists, up \in Upstreams : Accept(a, up)
    \/ \E resp \in GeoResponses, up \in Upstreams : GeoResponse(resp, up)
    \/ \E resp \in WeatherResponses : WeatherResponse(resp)

Spec == Init /\ [][Next]_vars

\* The event loop runs a callback once its response has arrived, and an
\* upstream that answers does so at some time.  Nothing forces a silent
\* upstream to answer, and nothing forces another request to arrive.
FairSpec ==
    /\ Spec
    /\ WF_vars(\E resp \in GeoResponses, up \in Upstreams : GeoResponse(resp, up))
    /\ WF_vars(\E resp \in WeatherResponses : WeatherResponse(resp))

\* ------------------------------------------------------------------------
\* What a request's state shows of its inputs and outcome
\* ------------------------------------------------------------------------

GeoAnswered == geoNet = "answered"
WeatherAnswered == weatherNet = "answered"
GeoParsed == GeoAnswered /\ ~geoResp.err /\ geoResp.json
WeatherParsed == WeatherAnswered /\ ~weatherResp.err /\ weatherResp.json
IsNumber(v) == v.t = "number"
Ended == pc \in {"sent", "failed"}

RECURSIVE Count(_, _)
Count(q, x) ==
    IF q = <<>> THEN 0
    ELSE (IF Head(q) = x THEN 1 ELSE 0) + Count(Tail(q), x)

\* The code the payload of the weather call carries in currently.icon.
PayloadIcon == weatherResp.doc.icon
HasCurrently == weatherResp.doc.t = "object" /\ weatherResp.doc.currently = "object"

\* ------------------------------------------------------------------------
\* C1.  The stages of a request run in the order getLocation, getWeather,
\* getIcon: the weather call is issued only after the geolocation call
\* came back with a parsed body holding both coordinates, getIcon runs
\* only after the weather call came back with a parsed body, and a
\* geolocation call that fails or lacks lat fails the request without a
\* weather call.
\* ------------------------------------------------------------------------
StagesInOrder ==
    /\ calls \in {<<>>, <<"getLocation">>, <<"getLocation", "getWeather">>,
                  <<"getLocation", "getWeather", "getIcon">>}
    /\ (Len(calls) >= 2) <=> (weatherUrl # "")
    /\ (Len(calls) >= 2) <=> (weatherNet # "none")
    /\ weatherUrl # "" =>
          /\ GeoParsed
          /\ geoResp.doc.t = "object"
          /\ geoResp.doc.lat # Undefined
          /\ geoResp.doc.lon # Undefined
    /\ Len(calls) = 3 => WeatherParsed
    /\ (GeoAnswered /\ (geoResp.err \/ ~geoResp.json \/ geoResp.doc.lat = Undefined)) =>
          /\ pc = "failed"
          /\ nextErr # ""
          /\ weatherUrl = ""
          /\ weatherNet = "none"
          /\ calls = <<"getLocation">>

\* A geolocation body with lon but no lat has failed the request.
StagesInOrderWitness ==
    /\ GeoParsed
    /\ geoResp.doc.t = "object"
    /\ geoResp.doc.lat = Undefined
    /\ geoResp.doc.lon = Num(3)
    /\ pc = "failed"
    /\ weatherUrl = ""

\* ------------------------------------------------------------------------
\* C2.  getLocation fails with the location error whenever lat or lon of
\* the geolocation body is missing or is not a number, and then resolves
\* with no coordinate pair.
\* ------------------------------------------------------------------------
LocationNeedsNumbers ==
    (GeoParsed /\ geoResp.doc.t = "object"
       /\ (~IsNumber(geoResp.doc.lat) \/ ~IsNumber(geoResp.doc.lon))) =>
          /\ pc = "failed"
          /\ nextErr = "Unable to find your location"
          /\ weatherUrl = ""

\* ------------------------------------------------------------------------
\* C3.  The weather stage fails when the weather call has a network
\* failure, answers with a status outside 200..299, or has a body that is
\* not JSON; in each case no payload reaches getIcon.
\* ------------------------------------------------------------------------
WeatherFailures ==
    (WeatherAnswered
       /\ (weatherResp.err \/ weatherResp.status \notin 200..299 \/ ~weatherResp.json)) =>
          /\ pc = "failed"
          /\ nextErr # ""
          /\ calls = <<"getLocation", "getWeather">>
          /\ ~sent

\* ------------------------------------------------------------------------
\* C4.  A request of which a stage failed (geolocation call or parse,
\* missing coordinates, weather call or parse, payload without a
\* `currently` record) has its error handed to next and no SVG body sent,
\* whole or partial; no request has both a body sent and an error.
\* ------------------------------------------------------------------------
StageFailed ==
    \/ GeoAnswered /\ (geoResp.err \/ ~geoResp.json \/ geoResp.doc.t = "null"
                         \/ geoResp.doc.lat = Undefined \/ geoResp.doc.lon = Undefined)
    \/ WeatherAnswered /\ (weatherResp.err \/ ~weatherResp.json \/ ~HasCurrently)

NoSvgOnFailure ==
    /\ StageFailed => (pc = "failed" /\ nextErr # "" /\ ~sent /\ body = <<>>)
    /\ ~(sent /\ nextErr # "")
    /\ (pc = "failed") <=> (nextErr # "")
    /\ (pc = "sent") <=> sent
    /\ ~sent => body = <<>>
    /\ sent => (Len(body) >= 3 /\ body[1] = SVG_HEADER /\ body[Len(body)] = SVG_END)

\* A payload without `currently` made getIcon throw after the header was set.
NoSvgOnFailureWitness ==
    /\ WeatherParsed
    /\ weatherResp.doc.t = "object"
    /\ weatherResp.doc.currently = "undefined"
    /\ header = CONTENT_TYPE_SVG
    /\ nextErr = "TypeError"
    /\ ~sent

\* ------------------------------------------------------------------------
\* C5.  getIcon's output is the header, the base layer of the code, the
\* cloud overlay of the code, the credit text once, and the closing tag.
\* Base layer: sun for clear-day and partly-cloudy-day, moon for
\* clear-night and partly-cloudy-night, rain for rain, snow for snow and
\* hail, rain then snow for sleet, wind for wind, nothing otherwise.  The
\* cloud is absent exactly for clear-day, clear-night and wind.
\* ------------------------------------------------------------------------
BaseLayerOf(c) ==
    IF c = "clear-day" \/ c = "partly-cloudy-day" THEN <<SVG_SUN>>
    ELSE IF c = "clear-night" \/ c = "partly-cloudy-night" THEN <<SVG_MOON>>
    ELSE IF c = "rain" THEN <<SVG_RAIN>>
    ELSE IF c = "snow" \/ c = "hail" THEN <<SVG_SNOW>>
    ELSE IF c = "sleet" THEN <<SVG_RAIN, SVG_SNOW>>
    ELSE IF c = "wind" THEN <<SVG_WIND>>
    ELSE <<>>

CloudOverlayOf(c) ==
    IF c \in {"clear-day", "clear-night", "wind"} THEN <<>>
    ELSE IF c \in {"partly-cloudy-day", "partly-cloudy-night"}
         THEN <<SVG_GROUP_OPEN, SVG_CLOUD, SVG_GROUP_CLOSE>>
    ELSE <<SVG_CLOUD>>

\* An icon that is no string is a code like no other.
CodeOf(icon) == IF icon.t = "string" THEN icon.s ELSE "undefined"

IconLayout ==
    sent =>
       LET c == CodeOf(PayloadIcon)
       IN /\ body = <<SVG_HEADER>> \o BaseLayerOf(c) \o CloudOverlayOf(c)
                       \o <<SVG_CREDIT, SVG_END>>
          /\ Count(body, SVG_CREDIT) = 1
          /\ Count(body, SVG_HEADER) = 1
          /\ Count(body, SVG_END) = 1
          /\ Count(body, SVG_CLOUD) =
                (IF c \in {"clear-day", "clear-night", "wind"} THEN 0 ELSE 1)

\* sleet was rendered: rain, snow and the cloud.
IconLayoutWitness ==
    /\ sent
    /\ PayloadIcon = Str("sleet")
    /\ body = <<SVG_HEADER, SVG_RAIN, SVG_SNOW, SVG_CLOUD, SVG_CREDIT, SVG_END>>

\* ------------------------------------------------------------------------
\* C6.  getIcon opens the translating group iff the code is
\* partly-cloudy-day or partly-cloudy-night; the group then holds exactly
\* the cloud and is closed before the credit text, so openings and
\* closings are as many.  clear-day has neither cloud nor group.
\* ------------------------------------------------------------------------
GroupWrapsCloud ==
    sent =>
       LET partly == PayloadIcon \in {Str("partly-cloudy-day"), Str("partly-cloudy-night")}
       IN /\ Count(body, SVG_GROUP_OPEN) = (IF partly THEN 1 ELSE 0)
          /\ Count(body, SVG_GROUP_CLOSE) = Count(body, SVG_GROUP_OPEN)
          /\ partly =>
                \E i \in 1..(Len(body) - 3) :
                    /\ body[i] = SVG_GROUP_OPEN
                    /\ body[i + 1] = SVG_CLOUD
                    /\ body[i + 2] = SVG_GROUP_CLOSE
                    /\ body[i + 3] = SVG_CREDIT
          /\ PayloadIcon = Str("clear-day") =>
                (Count(body, SVG_CLOUD) = 0 /\ Count(body, SVG_GROUP_OPEN) = 0)

\* partly-cloudy-night was rendered with its group.
GroupWrapsCloudWitness ==
    /\ sent
    /\ PayloadIcon = Str("partly-cloudy-night")
    /\ Count(body, SVG_GROUP_OPEN) = 1
    /\ Count(body, SVG_GROUP_CLOSE) = 1

\* ------------------------------------------------------------------------
\* C7.  Every accepted request eventually completes, with an SVG response
\* or with an error: an upstream that never answers makes it fail.
\* ------------------------------------------------------------------------
EventuallyCompletes == (pc \in {"geo", "weather"}) ~> Ended

\* ------------------------------------------------------------------------
\* C8.  With no client address (the address list is empty or its last
\* entry is absent) the geolocation call is made for 156.74.181.208;
\* otherwise it is made for the last entry of the list.
\* ------------------------------------------------------------------------
NoClientAddress == addrs = <<>> \/ addrs[Len(addrs)] = Undefined

FallbackAddress ==
    pc # "idle" =>
       /\ NoClientAddress => geoUrl = IP_LOOKUP_BASE_URL \o "156.74.181.208"
       /\ ~NoClientAddress =>
             /\ geoUrl = IP_LOOKUP_BASE_URL \o addrs[Len(addrs)].s
             /\ geoUrl # IP_LOOKUP_BASE_URL \o "156.74.181.208"

\* The last entry is absent though an earlier one is not: the fallback.
FallbackAddressWitness ==
    /\ pc = "geo"
    /\ addrs = <<Str("203.0.113.9"), Undefined>>
    /\ geoUrl = IP_LOOKUP_BASE_URL \o FALLBACK_IP

\* ------------------------------------------------------------------------
\* C9.  When both upstream calls succeed and the payload has a `currently`
\* record, the request ends with Content-Type image/svg+xml and the body
\* getIcon makes of the payload (for rain: the rain fragment and the
\* credit text).  As claimed: the header is set only on requests that end
\* by sending an SVG body.
\* ------------------------------------------------------------------------
SvgOnSuccess ==
    /\ (WeatherParsed /\ HasCurrently) =>
          /\ pc = "sent"
          /\ sent
          /\ nextErr = ""
          /\ header = "image/svg+xml"
          /\ body = getIcon(weatherResp.doc).svg
          /\ Count(body, SVG_CREDIT) = 1
          /\ PayloadIcon = Str("rain") => Count(body, SVG_RAIN) = 1
    /\ sent => (WeatherParsed /\ HasCurrently)

HeaderOnlyWithSvg ==
    /\ SvgOnSuccess
    /\ (header = "image/svg+xml" /\ Ended) => sent

\* As amended: the header is set exactly on the requests whose weather
\* call came back with a parsed body, before getIcon runs; of those, the
\* ones whose payload has no `currently` record end with an error.
HeaderOnParsedPayload ==
    /\ SvgOnSuccess
    /\ (header = "image/svg+xml") <=> WeatherParsed
    /\ header \in {"", "image/svg+xml"}
    /\ (WeatherParsed /\ ~HasCurrently) => (pc = "failed" /\ ~sent /\ nextErr = "TypeError")

\* rain was rendered and sent.
HeaderOnParsedPayloadWitness ==
    /\ pc = "sent"
    /\ weatherResp.status = 200
    /\ PayloadIcon = Str("rain")
    /\ header = "image/svg+xml"
    /\ body = <<SVG_HEADER, SVG_RAIN, SVG_CLOUD, SVG_CREDIT, SVG_END>>

\* ------------------------------------------------------------------------
\* C10.  For a geolocation body whose lat and lon are both numbers,
\* getLocation resolves with [lat, lon] and the weather call is issued for
\* exactly those coordinates, latitude first.
\* ------------------------------------------------------------------------
NumbersReachWeather ==
    (GeoParsed /\ geoResp.doc.t = "object"
       /\ IsNumber(geoResp.doc.lat) /\ IsNumber(geoResp.doc.lon)) =>
          /\ Len(calls) >= 2
          /\ weatherUrl = WEATHER_LOOKUP_BASE_URL \o DARKSKY_API_KEY \o "/"
                             \o ToString(geoResp.doc.lat.n) \o ","
                             \o ToString(geoResp.doc.lon.n)

====
